---- MODULE Spec2Model ----
(***************************************************************************)
(* rustc_version: version_meta_for (src/src/lib.rs) as a state machine.   *)
(* The text handed to version_meta_for is a string; one action models     *)
(* each statement group of the function, in program order.  Lines are     *)
(* indexed from 0 as in the source (out[i] is At(out, i)).  A u64 is a    *)
(* vector of five base-10^4 limbs, most significant first, so that values *)
(* up to and beyond 2^64 - 1 are computed exactly.                         *)
(***************************************************************************)
EXTENDS Integers, Sequences, FiniteSets, TLC

VARIABLES
    text,                   \* verbose_version_string
    pc,                     \* position in version_meta_for
    out,                    \* the collected lines
    idx,                    \* the cursor over the variable-position lines
    short_version_string, commit_hash, commit_date, build_date, host,
    release, semver, channel, llvm_version,      \* the function's locals
    result,                 \* what the call returned, Panic when it aborted
    inspected,              \* indexes of the lines read so far
    lhs, rhs, ordering      \* two LLVMVersion values and their comparison

parse_vars == <<text, pc, out, idx, short_version_string, commit_hash,
                commit_date, build_date, host, release, semver, channel,
                llvm_version, result, inspected>>
cmp_vars == <<lhs, rhs, ordering>>
vars == <<parse_vars, cmp_vars>>

-----------------------------------------------------------------------------
(* Values of the Rust types involved. *)

None == <<"None">>
Some(v) == <<"Some", v>>
Ok(v) == <<"Ok", v>>
Err(e) == <<"Err", e>>
IsOk(r) == r[1] = "Ok"
IsErr(r) == r[1] = "Err"

UnexpectedVersionFormat == <<"UnexpectedVersionFormat">>
SemVerError == <<"SemVerError">>
UnknownPreReleaseTag(x) == <<"UnknownPreReleaseTag", x>>

AlphaNumeric(s) == <<"AlphaNumeric", s>>
Numeric(n) == <<"Numeric", n>>

Unset == <<"Unset">>
UnsetVersion == [unset |-> TRUE]
UnsetChannel == "Unset"
Pending == <<"Pending">>
Panic == <<"Panic">>

-----------------------------------------------------------------------------
(* str primitives of the standard library, as the function uses them. *)

CharAt(s, i) == SubSeq(s, i, i)

\* str::find(char): position (from 1) of the first occurrence, 0 when absent.
Find(s, ch) ==
    IF \E i \in 1..Len(s) : CharAt(s, i) = ch
    THEN CHOOSE i \in 1..Len(s) :
            /\ CharAt(s, i) = ch
            /\ \A j \in 1..(i - 1) : CharAt(s, j) # ch
    ELSE 0

StartsWith(line, prefix) ==
    /\ Len(line) >= Len(prefix)
    /\ SubSeq(line, 1, Len(prefix)) = prefix

\* str::split(char): at least one piece, empty pieces kept.
RECURSIVE Split(_, _)
Split(s, ch) ==
    LET i == Find(s, ch)
    IN  IF i = 0
        THEN <<s>>
        ELSE <<SubSeq(s, 1, i - 1)>> \o Split(SubSeq(s, i + 1, Len(s)), ch)

\* A fault of the line split: split('\n') for lines(), the "\r" is kept.
KeepCr(line) == line

StripCr(line) ==
    IF Len(line) > 0 /\ CharAt(line, Len(line)) = "\r"
    THEN SubSeq(line, 1, Len(line) - 1)
    ELSE line

\* str::lines(): split at "\n", the final line ending optional, one "\r"
\* before the "\n" dropped.
Lines(s) ==
    LET pieces == Split(s, "\n")
        kept == IF pieces[Len(pieces)] = ""
                THEN SubSeq(pieces, 1, Len(pieces) - 1)
                ELSE pieces
    IN  [i \in 1..Len(kept) |-> StripCr(kept[i])]

At(lines, i) == lines[i + 1]

IsAsciiDigit(ch) == Find("0123456789", ch) # 0
DigitVal(ch) == Find("0123456789", ch) - 1

-----------------------------------------------------------------------------
(* u64 arithmetic on limbs. *)

LimbBase == 10 * 10 * 10 * 10
U64Zero == <<0, 0, 0, 0, 0>>
U64Max == <<1844, 6744, 737, 955, 1615>>
U64Of(n) == <<0, 0, 0, 0, n>>

U64Lt(a, b) ==
    \E i \in 1..5 : a[i] < b[i] /\ \A j \in 1..(i - 1) : a[j] = b[j]

\* v * m + a over the limbs: <<carry out of the top limb, limbs>>.
MulAdd(v, m, a) ==
    LET t5 == v[5] * m + a
        t4 == v[4] * m + (t5 \div LimbBase)
        t3 == v[3] * m + (t4 \div LimbBase)
        t2 == v[2] * m + (t3 \div LimbBase)
        t1 == v[1] * m + (t2 \div LimbBase)
    IN  <<t1 \div LimbBase,
          <<t1 % LimbBase, t2 % LimbBase, t3 % LimbBase, t4 % LimbBase,
            t5 % LimbBase>> >>

Checked(r) == IF r[1] > 0 \/ U64Lt(U64Max, r[2]) THEN None ELSE Some(r[2])
checked_mul(v, m) == Checked(MulAdd(v, m, 0))
checked_add(v, a) == Checked(MulAdd(v, 1, a))

\* The digit loop of u64::from_str: Err on a non-digit or on overflow.
RECURSIVE FromDigits(_, _)
FromDigits(s, acc) ==
    IF s = ""
    THEN Ok(acc)
    ELSE LET ch == CharAt(s, 1)
             m == checked_mul(acc, 10)
             a == checked_add(m[2], DigitVal(ch))
         IN  IF ~IsAsciiDigit(ch) \/ m = None \/ a = None
             THEN Err("ParseIntError")
             ELSE FromDigits(Tail(s), a[2])

\* str::parse::<u64>(): empty is an error, one leading "+" is allowed.
ParseU64(s) ==
    LET digits == IF StartsWith(s, "+") THEN Tail(s) ELSE s
    IN  IF digits = "" THEN Err("ParseIntError") ELSE FromDigits(digits, U64Zero)

-----------------------------------------------------------------------------
(* Helpers local to version_meta_for. *)

expect_prefix(line, prefix) ==
    IF StartsWith(line, prefix)
    THEN Ok(SubSeq(line, Len(prefix) + 1, Len(line)))
    ELSE Err(UnexpectedVersionFormat)

\* A fault of the sentinel match: any value that begins with the sentinel.
UnknownPrefixIsNone(v) == IF StartsWith(v, "unknown") THEN None ELSE Some(v)

\* "unknown" => None, anything else => Some(text).
UnknownIsNone(v) == IF v = "unknown" THEN None ELSE Some(v)

\* A fault of parse_part: a leading zero is reported with the error type
\* that errors.rs declares for it.
parse_part_llvm_error(part) ==
    IF part = "0"
    THEN Ok(U64Zero)
    ELSE IF part # "" /\ CharAt(part, 1) = "0"
         THEN Err(<<"LlvmVersionError", "ComponentMustNotHaveLeadingZeros">>)
         ELSE IF part = "" \/ \E i \in 1..Len(part) : ~IsAsciiDigit(CharAt(part, i))
              THEN Err(UnexpectedVersionFormat)
              ELSE LET r == ParseU64(part)
                   IN  IF IsOk(r) THEN r ELSE Err(UnexpectedVersionFormat)

\* A fault of parse_part: the test for a non-digit character is missing, so
\* whatever str::parse accepts is accepted.
parse_part_unscreened(part) ==
    IF part = "0"
    THEN Ok(U64Zero)
    ELSE IF part = "" \/ CharAt(part, 1) = "0"
         THEN Err(UnexpectedVersionFormat)
         ELSE LET r == ParseU64(part)
              IN  IF IsOk(r) THEN r ELSE Err(UnexpectedVersionFormat)

parse_part(part) ==
    IF part = "0"
    THEN Ok(U64Zero)
    ELSE IF \/ part = ""
            \/ CharAt(part, 1) = "0"
            \/ \E i \in 1..Len(part) : ~IsAsciiDigit(CharAt(part, i))
         THEN Err(UnexpectedVersionFormat)
         ELSE LET r == ParseU64(part)
              IN  IF IsOk(r) THEN r ELSE Err(UnexpectedVersionFormat)

LLVMVersion(major, minor) == [major |-> major, minor |-> minor]

\* The body of the `if let Some(&line)` branch after expect_prefix.
ParseLLVMToken(tok) ==
    LET parts == Split(tok, ".")
        major == parse_part(parts[1])
    IN  IF IsErr(major)
        THEN major
        ELSE IF Len(parts) >= 2
             THEN LET minor == parse_part(parts[2])
                  IN  IF IsErr(minor)
                      THEN minor
                      ELSE IF Len(parts) >= 3
                      THEN Err(UnexpectedVersionFormat)
                      ELSE IF ~U64Lt(major[2], U64Of(4)) /\ minor[2] # U64Zero
                      THEN Err(UnexpectedVersionFormat)
                      ELSE Ok(LLVMVersion(major[2], minor[2]))
             ELSE IF U64Lt(major[2], U64Of(4))
                  THEN Err(UnexpectedVersionFormat)
                  ELSE Ok(LLVMVersion(major[2], U64Zero))

-----------------------------------------------------------------------------
(* The derived order of LLVMVersion (#[derive(Ord, PartialOrd, Eq,          *)
(* PartialEq)]): fields are compared in declaration order, the first        *)
(* unequal field decides.                                                   *)

U64Cmp(a, b) == IF U64Lt(a, b) THEN "Less" ELSE IF U64Lt(b, a) THEN "Greater" ELSE "Equal"

\* A fault of the declaration: the fields in the other order.
LLVMVersionFieldsSwapped == <<"minor", "major">>

LLVMVersionFields == <<"major", "minor">>

RECURSIVE CmpFields(_, _, _)
CmpFields(a, b, fields) ==
    IF fields = <<>>
    THEN "Equal"
    ELSE LET c == U64Cmp(a[Head(fields)], b[Head(fields)])
         IN  IF c # "Equal" THEN c ELSE CmpFields(a, b, Tail(fields))

LLVMVersionCmp(a, b) == CmpFields(a, b, LLVMVersionFields)
LLVMVersionEq(a, b) == \A i \in 1..Len(LLVMVersionFields) :
                          a[LLVMVersionFields[i]] = b[LLVMVersionFields[i]]

-----------------------------------------------------------------------------
(* semver::Version::parse, the supplied semantic-version parser:            *)
(* MAJOR.MINOR.PATCH[-pre(.pre)*][+build(.build)*].                          *)

IsIdentChar(ch) ==
    Find("0123456789ABCDEFGHIJKLMNOPQRSTUVWXYZabcdefghijklmnopqrstuvwxyz-", ch) # 0

AllDigits(s) == \A i \in 1..Len(s) : IsAsciiDigit(CharAt(s, i))

\* A numeric component: digits, no leading zero, within u64.
SemverNumber(s) ==
    IF s = "" \/ ~AllDigits(s) \/ (Len(s) > 1 /\ CharAt(s, 1) = "0")
    THEN Err(SemVerError)
    ELSE LET r == ParseU64(s) IN IF IsOk(r) THEN r ELSE Err(SemVerError)

SemverIdentifier(s) ==
    IF s = "" \/ \E i \in 1..Len(s) : ~IsIdentChar(CharAt(s, i))
    THEN Err(SemVerError)
    ELSE IF AllDigits(s)
         THEN LET n == SemverNumber(s) IN IF IsOk(n) THEN Ok(Numeric(n[2])) ELSE n
         ELSE Ok(AlphaNumeric(s))

SemverIdentifiers(s) ==
    LET parts == Split(s, ".")
        ids == [i \in 1..Len(parts) |-> SemverIdentifier(parts[i])]
    IN  IF \E i \in 1..Len(ids) : IsErr(ids[i])
        THEN Err(SemVerError)
        ELSE Ok([i \in 1..Len(ids) |-> ids[i][2]])

\* The text before and, when ch occurs, after its first occurrence.
SplitOnce(s, ch) ==
    LET i == Find(s, ch)
    IN  IF i = 0 THEN <<s>> ELSE <<SubSeq(s, 1, i - 1), SubSeq(s, i + 1, Len(s))>>

SemverOptional(parts) ==
    IF Len(parts) = 1 THEN Ok(<<>>) ELSE SemverIdentifiers(parts[2])

SemverCore(s) ==
    LET core == Split(s, ".")
    IN  IF Len(core) # 3
        THEN Err(SemVerError)
        ELSE LET nums == [i \in 1..3 |-> SemverNumber(core[i])]
             IN  IF \E i \in 1..3 : IsErr(nums[i])
                 THEN Err(SemVerError)
                 ELSE Ok([i \in 1..3 |-> nums[i][2]])

SemverAssemble(core, pre, build) ==
    IF IsErr(core) \/ IsErr(pre) \/ IsErr(build)
    THEN Err(SemVerError)
    ELSE Ok([major |-> core[2][1], minor |-> core[2][2], patch |-> core[2][3],
             pre |-> pre[2], build |-> build[2]])

SemverMain(parts, build) ==
    SemverAssemble(SemverCore(parts[1]), SemverOptional(parts), build)

SemverParse(s) ==
    SemverMain(SplitOnce(SplitOnce(s, "+")[1], "-"), SemverOptional(SplitOnce(s, "+")))

\* A fault of the channel match: an unrecognised tag falls back to Dev.
ChannelOfDefaultDev(pre) ==
    IF pre = <<>>
    THEN Ok("Stable")
    ELSE IF pre[1] = AlphaNumeric("beta") THEN Ok("Beta")
    ELSE IF pre[1] = AlphaNumeric("nightly") THEN Ok("Nightly")
    ELSE Ok("Dev")

\* The match on semver.pre of version_meta_for.
ChannelOf(pre) ==
    IF pre = <<>>
    THEN Ok("Stable")
    ELSE IF pre[1] = AlphaNumeric("dev") THEN Ok("Dev")
    ELSE IF pre[1] = AlphaNumeric("beta") THEN Ok("Beta")
    ELSE IF pre[1] = AlphaNumeric("nightly") THEN Ok("Nightly")
    ELSE Err(UnknownPreReleaseTag(pre[1]))

\* Faults of the line-count test: the upper bound off by one; `>` for `>=`.
LenOkUpTo9(n) == n >= 6 /\ n <= 9
LenOkAbove6(n) == n > 6 /\ n <= 8

\* The line-count test at the head of version_meta_for.
LenOk(n) == n >= 6 /\ n <= 8

\* The test that decides whether line 4 is taken as the build-date line.
HasBuildDate(line) == StartsWith(line, "build-date")

-----------------------------------------------------------------------------
(* The texts version_meta_for is called with. *)

MaxTail == 5        \* lines after the commit-date line in the tail family
MaxTokLen == 3      \* length of the enumerated LLVM version tokens

RECURSIVE Join(_, _)
Join(lines, eol) ==
    IF lines = <<>> THEN ""
    ELSE IF Len(lines) = 1 THEN lines[1]
    ELSE lines[1] \o eol \o Join(Tail(lines), eol)

RECURSIVE SeqsOfLen(_, _)
SeqsOfLen(S, n) ==
    IF n = 0 THEN {<<>>}
    ELSE {<<x>> \o t : x \in S, t \in SeqsOfLen(S, n - 1)}

RECURSIVE StringsOfLen(_, _)
StringsOfLen(S, n) ==
    IF n = 0 THEN {""}
    ELSE {x \o t : x \in S, t \in StringsOfLen(S, n - 1)}

GoodHead == <<"rustc 1.3.0", "binary: rustc", "commit-hash: 9a92aaf", "commit-date: unknown">>
BuildLine == "build-date: 2015-05-14"
HostLine == "host: x86_64-linux"
ReleaseLine == "release: 1.3.0"
LlvmLine == "LLVM version: 3.9"
OtherLine == "rust-birthday: 2015-05-14"

\* Every arrangement of the known lines after a well-formed head.
TailPool == {BuildLine, HostLine, ReleaseLine, LlvmLine, OtherLine}
TailInputs ==
    {Join(GoodHead \o t, "\n") \o term :
        t \in UNION {SeqsOfLen(TailPool, n) : n \in 1..MaxTail},
        term \in {"", "\n"}}

GoodTails == {<<HostLine, ReleaseLine>>,
              <<BuildLine, HostLine, ReleaseLine>>,
              <<HostLine, ReleaseLine, LlvmLine>>,
              <<BuildLine, HostLine, ReleaseLine, LlvmLine>>}

ShortPool == {"rustc 1.3.0 (9a92aaf19 2015-09-15)", "", "  release: x  "}
BinaryPool == {"binary: rustc", "commit-hash: 1"}
HashPool == {"commit-hash: 9a92aaf", "commit-hash: unknown", "commit-hash: Unknown",
             "commit-hash: unknown ", "commit-hash: ", "commit-hash:9a92aaf",
             "commit-date: 2015-09-15"}
DatePool == {"commit-date: 2015-09-15", "commit-date: unknown", "commit-date:  unknown",
             "commit-date: unknownx", "Commit-date: 2015-09-15"}

\* The fixed-position lines vary, with both line endings.
HeadInputs ==
    {Join(<<l0, l1, l2, l3>> \o t, eol) \o term :
        l0 \in ShortPool, l1 \in BinaryPool, l2 \in HashPool, l3 \in DatePool,
        t \in GoodTails, eol \in {"\n", "\r\n"}, term \in {"", "\n"}}

BuildPool == {"build-date: 2015-05-14", "build-date: unknown", "build-date: UNKNOWN",
              "build-date: ", "build-date:2015-05-14", "build-date", "build-datex: 1"}
HostPool == {"host: x86_64-linux", "host:  spaced triple ", "host: ", "host:x86_64-linux"}
ReleasePool == {"release: 1.3.0", "release: 1.5.0-nightly", "release: 1.5.0-nightly.3",
                "release: 1.0.0-beta.2", "release: 1.0.0-dev", "release: 1.0.0-dev+b1",
                "release: 1.0.0+b1", "release: 1.0.0-alpha", "release: 1.0.0-1",
                "release: 1.0.0-0.nightly", "release: 1.0.0-Dev", "release: 1.0.0-nightlyx",
                "release: 1.0.0-beta-1", "release: 1.3", "release: 1.0.0-", "release: ",
                "release: 01.3.0", "release: 18446744073709551616.0.0",
                "release:1.3.0", "Release: 1.3.0"}

\* The variable-position lines vary.
FieldInputs ==
    {Join(GoodHead \o b \o <<h, r>> \o l, "\n") :
        b \in {<<>>} \cup {<<x>> : x \in BuildPool}, h \in HostPool,
        r \in ReleasePool, l \in {<<>>, <<LlvmLine>>}}

TokChars == {"0", "1", "3", "4", "9", ".", "x", "+"}
LongToks == {"10.0", "11.0", "3.10", "07.0", "10.0x", "10.0.0.0.0", "5.6", "-3.9",
             "18446744073709551615", "18446744073709551616",
             "18446744073709551615.0", "18446744073709551620",
             "2.18446744073709551615", "2.18446744073709551616",
             "99999999999999999999", "100000000000000000000", "3. 9", " 3.9"}
Toks == LongToks \cup UNION {StringsOfLen(TokChars, n) : n \in 0..MaxTokLen}
LlvmPool == {"LLVM version: " \o t : t \in Toks}
            \cup {"LLVM version:3.9", "LLVM version", "llvm version: 3.9", "LLVM: 3.9"}

\* The LLVM version line varies, in the 7-line and in the 8-line shape.
LlvmInputs ==
    {Join(GoodHead \o b \o <<HostLine, r, l>>, "\n") :
        b \in {<<>>, <<BuildLine>>}, r \in {ReleaseLine, "release: 1.16.0-nightly"},
        l \in LlvmPool}

EmptyInputs == {"", "\n"}

\* Texts in which several lines are malformed at once.
OrderInputs ==
    {Join(<<"rustc 1.3.0", "binary: rustc", h, d>> \o b \o <<o, r>> \o l, "\n") :
        h \in {"commit-hash: 9a92aaf", "commit-hash 9a92aaf"},
        d \in {"commit-date: unknown", "commit-date unknown"},
        b \in {<<>>, <<BuildLine>>, <<"build-date 2015-05-14">>},
        o \in {HostLine, "host x86_64-linux"},
        r \in {ReleaseLine, "release 1.3.0", "release: 1.3", "release: 1.0.0-alpha"},
        l \in {<<>>, <<LlvmLine>>, <<"LLVM version 3.9">>, <<"LLVM version: 07.0">>}}

IsInput(t) == \/ t \in EmptyInputs
              \/ t \in TailInputs
              \/ t \in HeadInputs
              \/ t \in FieldInputs
              \/ t \in LlvmInputs
              \/ t \in OrderInputs

-----------------------------------------------------------------------------
(* version_meta_for, statement by statement. *)

IdxStart == 4

ParseIdle == /\ out = Unset /\ idx = Unset /\ short_version_string = Unset
             /\ commit_hash = Unset /\ commit_date = Unset /\ build_date = Unset
             /\ host = Unset /\ release = Unset /\ semver = UnsetVersion
             /\ channel = UnsetChannel /\ llvm_version = Unset
             /\ result = Pending /\ inspected = {}

Init == /\ IsInput(text)
        /\ pc = "lines"
        /\ ParseIdle
        /\ lhs = Unset /\ rhs = Unset /\ ordering = Unset

\* return Err(e) / a failed index: the call is over.
Return(r) == /\ result' = r
             /\ pc' = "done"

\* let out: Vec<_> = verbose_version_string.lines().collect();
CollectLines ==
    /\ pc = "lines"
    /\ out' = Lines(text)
    /\ pc' = "len"
    /\ UNCHANGED <<text, idx, short_version_string, commit_hash, commit_date,
                   build_date, host, release, semver, channel, llvm_version,
                   result, inspected, cmp_vars>>

\* if !(out.len() >= 6 && out.len() <= 8) { return Err(..) }
CheckLen ==
    /\ pc = "len"
    /\ IF LenOk(Len(out))
       THEN pc' = "short" /\ UNCHANGED result
       ELSE Return(Err(UnexpectedVersionFormat))
    /\ UNCHANGED <<text, out, idx, short_version_string, commit_hash, commit_date,
                   build_date, host, release, semver, channel, llvm_version,
                   inspected, cmp_vars>>

\* let short_version_string = out[0];
ReadShort ==
    /\ pc = "short"
    /\ IF 0 < Len(out)
       THEN /\ short_version_string' = At(out, 0)
            /\ inspected' = inspected \cup {0}
            /\ pc' = "hash"
            /\ UNCHANGED result
       ELSE /\ Return(Panic)
            /\ UNCHANGED <<short_version_string, inspected>>
    /\ UNCHANGED <<text, out, idx, commit_hash, commit_date, build_date, host,
                   release, semver, channel, llvm_version, cmp_vars>>

\* let commit_hash = match expect_prefix(out[2], "commit-hash: ")? { .. };
ParseCommitHash ==
    /\ pc = "hash"
    /\ IF 2 < Len(out)
       THEN LET r == expect_prefix(At(out, 2), "commit-hash: ")
            IN  /\ inspected' = inspected \cup {2}
                /\ IF IsOk(r)
                   THEN /\ commit_hash' = UnknownIsNone(r[2])
                        /\ pc' = "date"
                        /\ UNCHANGED result
                   ELSE /\ Return(r)
                        /\ UNCHANGED commit_hash
       ELSE /\ Return(Panic)
            /\ UNCHANGED <<commit_hash, inspected>>
    /\ UNCHANGED <<text, out, idx, short_version_string, commit_date, build_date,
                   host, release, semver, channel, llvm_version, cmp_vars>>

\* let commit_date = match expect_prefix(out[3], "commit-date: ")? { .. };
ParseCommitDate ==
    /\ pc = "date"
    /\ IF 3 < Len(out)
       THEN LET r == expect_prefix(At(out, 3), "commit-date: ")
            IN  /\ inspected' = inspected \cup {3}
                /\ IF IsOk(r)
                   THEN /\ commit_date' = UnknownIsNone(r[2])
                        /\ pc' = "build"
                        /\ UNCHANGED result
                   ELSE /\ Return(r)
                        /\ UNCHANGED commit_date
       ELSE /\ Return(Panic)
            /\ UNCHANGED <<commit_date, inspected>>
    /\ UNCHANGED <<text, out, idx, short_version_string, commit_hash, build_date,
                   host, release, semver, channel, llvm_version, cmp_vars>>

\* let mut idx = 4; let mut build_date = None;
\* if out[idx].starts_with("build-date") { build_date = ..?; idx += 1; }
ParseBuildDate ==
    /\ pc = "build"
    /\ IF IdxStart < Len(out)
       THEN /\ inspected' = inspected \cup {IdxStart}
            /\ IF HasBuildDate(At(out, IdxStart))
               THEN LET r == expect_prefix(At(out, IdxStart), "build-date: ")
                    IN  IF IsOk(r)
                        THEN /\ build_date' = UnknownIsNone(r[2])
                             /\ idx' = IdxStart + 1
                             /\ pc' = "host"
                             /\ UNCHANGED result
                        ELSE /\ Return(r)
                             /\ build_date' = None
                             /\ idx' = IdxStart
               ELSE /\ build_date' = None
                    /\ idx' = IdxStart
                    /\ pc' = "host"
                    /\ UNCHANGED result
       ELSE /\ Return(Panic)
            /\ build_date' = None
            /\ idx' = IdxStart
            /\ UNCHANGED inspected
    /\ UNCHANGED <<text, out, short_version_string, commit_hash, commit_date,
                   host, release, semver, channel, llvm_version, cmp_vars>>

\* let host = expect_prefix(out[idx], "host: ")?; idx += 1;
ParseHost ==
    /\ pc = "host"
    /\ IF idx < Len(out)
       THEN LET r == expect_prefix(At(out, idx), "host: ")
            IN  /\ inspected' = inspected \cup {idx}
                /\ IF IsOk(r)
                   THEN /\ host' = r[2]
                        /\ idx' = idx + 1
                        /\ pc' = "release"
                        /\ UNCHANGED result
                   ELSE /\ Return(r)
                        /\ UNCHANGED <<host, idx>>
       ELSE /\ Return(Panic)
            /\ UNCHANGED <<host, idx, inspected>>
    /\ UNCHANGED <<text, out, short_version_string, commit_hash, commit_date,
                   build_date, release, semver, channel, llvm_version, cmp_vars>>

\* let release = expect_prefix(out[idx], "release: ")?; idx += 1;
ParseRelease ==
    /\ pc = "release"
    /\ IF idx < Len(out)
       THEN LET r == expect_prefix(At(out, idx), "release: ")
            IN  /\ inspected' = inspected \cup {idx}
                /\ IF IsOk(r)
                   THEN /\ release' = r[2]
                        /\ idx' = idx + 1
                        /\ pc' = "semver"
                        /\ UNCHANGED result
                   ELSE /\ Return(r)
                        /\ UNCHANGED <<release, idx>>
       ELSE /\ Return(Panic)
            /\ UNCHANGED <<release, idx, inspected>>
    /\ UNCHANGED <<text, out, short_version_string, commit_hash, commit_date,
                   build_date, host, semver, channel, llvm_version, cmp_vars>>

\* let semver: Version = release.parse()?;
ParseSemver ==
    /\ pc = "semver"
    /\ LET r == SemverParse(release)
       IN  IF IsOk(r)
           THEN /\ semver' = r[2]
                /\ pc' = "channel"
                /\ UNCHANGED result
           ELSE /\ Return(r)
                /\ UNCHANGED semver
    /\ UNCHANGED <<text, out, idx, short_version_string, commit_hash, commit_date,
                   build_date, host, release, channel, llvm_version, inspected,
                   cmp_vars>>

\* A fault of the statement order: the LLVM version line is examined before
\* the channel is derived.
LlvmLineBad(line) ==
    \/ IsErr(expect_prefix(line, "LLVM version: "))
    \/ IsErr(ParseLLVMToken(expect_prefix(line, "LLVM version: ")[2]))

DeriveChannelAfterLlvm ==
    /\ pc = "channel"
    /\ IF idx < Len(out) /\ LlvmLineBad(At(out, idx))
       THEN /\ Return(Err(UnexpectedVersionFormat))
            /\ inspected' = inspected \cup {idx}
            /\ UNCHANGED channel
       ELSE /\ UNCHANGED inspected
            /\ IF IsOk(ChannelOf(semver.pre))
               THEN /\ channel' = ChannelOf(semver.pre)[2]
                    /\ pc' = "llvm"
                    /\ UNCHANGED result
               ELSE /\ Return(ChannelOf(semver.pre))
                    /\ UNCHANGED channel
    /\ UNCHANGED <<text, out, idx, short_version_string, commit_hash, commit_date,
                   build_date, host, release, semver, llvm_version, cmp_vars>>

\* let channel = if semver.pre.is_empty() { Stable } else { match semver.pre[0] .. };
DeriveChannel ==
    /\ pc = "channel"
    /\ LET r == ChannelOf(semver.pre)
       IN  IF IsOk(r)
           THEN /\ channel' = r[2]
                /\ pc' = "llvm"
                /\ UNCHANGED result
           ELSE /\ Return(r)
                /\ UNCHANGED channel
    /\ UNCHANGED <<text, out, idx, short_version_string, commit_hash, commit_date,
                   build_date, host, release, semver, llvm_version, inspected,
                   cmp_vars>>

\* let llvm_version = if let Some(&line) = out.get(idx) { .. } else { None };
ParseLLVM ==
    /\ pc = "llvm"
    /\ IF idx < Len(out)
       THEN LET p == expect_prefix(At(out, idx), "LLVM version: ")
                r == IF IsOk(p) THEN ParseLLVMToken(p[2]) ELSE p
            IN  /\ inspected' = inspected \cup {idx}
                /\ IF IsOk(r)
                   THEN /\ llvm_version' = Some(r[2])
                        /\ pc' = "ok"
                        /\ UNCHANGED result
                   ELSE /\ Return(r)
                        /\ UNCHANGED llvm_version
       ELSE /\ llvm_version' = None
            /\ pc' = "ok"
            /\ UNCHANGED <<result, inspected>>
    /\ UNCHANGED <<text, out, idx, short_version_string, commit_hash, commit_date,
                   build_date, host, release, semver, channel, cmp_vars>>

\* Ok(VersionMeta { .. })
ReturnOk ==
    /\ pc = "ok"
    /\ Return(Ok([semver |-> semver,
                  commit_hash |-> commit_hash,
                  commit_date |-> commit_date,
                  build_date |-> build_date,
                  channel |-> channel,
                  host |-> host,
                  short_version_string |-> short_version_string,
                  llvm_version |-> llvm_version]))
    /\ UNCHANGED <<text, out, idx, short_version_string, commit_hash, commit_date,
                   build_date, host, release, semver, channel, llvm_version,
                   inspected, cmp_vars>>

Next == \/ CollectLines
        \/ CheckLen
        \/ ReadShort
        \/ ParseCommitHash
        \/ ParseCommitDate
        \/ ParseBuildDate
        \/ ParseHost
        \/ ParseRelease
        \/ ParseSemver
        \/ DeriveChannel
        \/ ParseLLVM
        \/ ReturnOk

Spec == Init /\ [][Next]_vars

Done == pc = "done"
Accepted == Done /\ IsOk(result)
TypeOK == pc \in {"lines", "len", "short", "hash", "date", "build", "host", "release",
                  "semver", "channel", "llvm", "ok", "done"}

-----------------------------------------------------------------------------
(* Comparing two LLVMVersion values. *)

MaxSmall == 5       \* the small field values 0..MaxSmall

U64Samples == {U64Of(n) : n \in 0..MaxSmall}
                \cup {U64Max, <<0, 0, 0, 1, 0>>, <<1, 0, 0, 0, 0>>}
LLVMVersions == {LLVMVersion(ma, mi) : ma \in U64Samples, mi \in U64Samples}

InitOrd == /\ text = "" /\ pc = "cmp"
           /\ ParseIdle
           /\ lhs \in LLVMVersions /\ rhs \in LLVMVersions
           /\ ordering = Unset

\* lhs.cmp(&rhs) and lhs == rhs
Compare ==
    /\ pc = "cmp"
    /\ ordering' = [cmp |-> LLVMVersionCmp(lhs, rhs), eq |-> LLVMVersionEq(lhs, rhs)]
    /\ pc' = "compared"
    /\ UNCHANGED <<text, out, idx, short_version_string, commit_hash, commit_date,
                   build_date, host, release, semver, channel, llvm_version,
                   result, inspected, lhs, rhs>>

NextOrd == Compare

SpecOrd == InitOrd /\ [][NextOrd]_vars

-----------------------------------------------------------------------------
(* Properties. *)

\* The number of lines of a text, counted from its line feeds.
NumLines(t) ==
    Cardinality({i \in 1..Len(t) : CharAt(t, i) = "\n"})
        + (IF t # "" /\ CharAt(t, Len(t)) # "\n" THEN 1 ELSE 0)

\* C1: every call of version_meta_for ends in Ok(VersionMeta) or Err(Error);
\* it never aborts on an index at or beyond the number of lines.
C1_NeverAborts == Done => (IsOk(result) \/ IsErr(result))

\* C2: a text of fewer than 6 or more than 8 lines is rejected with
\* UnexpectedVersionFormat, whatever the lines hold, and no line has been
\* read when it is rejected.
C2_LineCountFirst ==
    (Done /\ (NumLines(text) < 6 \/ NumLines(text) > 8))
        => (result = Err(UnexpectedVersionFormat) /\ inspected = {})

C2_Witness ==
    /\ Done
    /\ NumLines(text) = 9
    /\ Lines(text) = GoodHead \o <<BuildLine, HostLine, ReleaseLine, LlvmLine, OtherLine>>
    /\ result = Err(UnexpectedVersionFormat)

\* A release value the semver parser accepts whose channel is known.
KnownChannelRelease(v) ==
    /\ IsOk(SemverParse(v))
    /\ \/ SemverParse(v)[2].pre = <<>>
       \/ SemverParse(v)[2].pre[1] \in
            {AlphaNumeric("dev"), AlphaNumeric("beta"), AlphaNumeric("nightly")}

After(line, prefix) == SubSeq(line, Len(prefix) + 1, Len(line))

\* C3: a 6-line text with the commit-hash, commit-date, host and release
\* lines at indexes 2..5 and a release of a known channel is accepted, with
\* build_date = None and llvm_version = None.
C3_SixLines ==
    (/\ Done
     /\ NumLines(text) = 6
     /\ StartsWith(At(out, 2), "commit-hash: ")
     /\ StartsWith(At(out, 3), "commit-date: ")
     /\ StartsWith(At(out, 4), "host: ")
     /\ StartsWith(At(out, 5), "release: ")
     /\ KnownChannelRelease(After(At(out, 5), "release: ")))
        => (/\ IsOk(result)
            /\ result[2].build_date = None
            /\ result[2].llvm_version = None)

C3_Witness ==
    /\ Accepted
    /\ NumLines(text) = 6
    /\ result[2].channel = "Nightly"
    /\ result[2].build_date = None
    /\ result[2].llvm_version = None

\* The index of the host line: 5 after a build-date line at index 4, else 4.
HostIdx(lines) == IF StartsWith(At(lines, 4), "build-date") THEN 5 ELSE 4

\* The line at index i starts with the prefix; an absent line does not.
LineHas(lines, i, prefix) == i < Len(lines) /\ StartsWith(At(lines, i), prefix)

\* C4: a line 4 that begins with `build-date` must carry the whole prefix
\* `build-date: ` and moves host and release to lines 5 and 6; otherwise they
\* are lines 4 and 5.  The host line must start with `host: ` and the next
\* with `release: `; any mismatch is rejected with UnexpectedVersionFormat.
\* An accepted text has its host and release taken from those lines.
C4_SlidingCursor ==
    (Done /\ NumLines(text) >= 6 /\ NumLines(text) <= 8)
        => /\ (\/ (StartsWith(At(out, 4), "build-date")
                    /\ ~StartsWith(At(out, 4), "build-date: "))
               \/ ~LineHas(out, HostIdx(out), "host: ")
               \/ ~LineHas(out, HostIdx(out) + 1, "release: "))
                  => result = Err(UnexpectedVersionFormat)
           /\ IsOk(result)
                  => /\ result[2].host = After(At(out, HostIdx(out)), "host: ")
                     /\ release = After(At(out, HostIdx(out) + 1), "release: ")
                     /\ (HostIdx(out) = 4 => result[2].build_date = None)
                     /\ (HostIdx(out) = 5 => result[2].build_date \in
                            {None, Some(After(At(out, 4), "build-date: "))})

\* C4 apart from the calls that abort: the same statement over the calls
\* that return.
C4_SlidingCursorReturned == (result # Panic) => C4_SlidingCursor

\* C5: in an accepted text the commit-hash, commit-date and build-date
\* values obey one rule: exactly `unknown` gives None, any other non-empty
\* value gives Some of the text after the prefix, unchanged.
SentinelRule(value, field) ==
    /\ (value = "unknown" => field = None)
    /\ ((value # "unknown" /\ value # "") => field = Some(value))

C5_Sentinel ==
    Accepted
        => /\ SentinelRule(After(At(out, 2), "commit-hash: "), result[2].commit_hash)
           /\ SentinelRule(After(At(out, 3), "commit-date: "), result[2].commit_date)
           /\ StartsWith(At(out, 4), "build-date")
                => SentinelRule(After(At(out, 4), "build-date: "), result[2].build_date)

C5_Witness ==
    /\ Accepted
    /\ At(out, 2) = "commit-hash: unknown "
    /\ result[2].commit_hash = Some("unknown ")
    /\ At(out, 3) = "commit-date: unknown"
    /\ result[2].commit_date = None
    /\ StartsWith(At(out, 4), "build-date: ")
    /\ result[2].build_date # None

C5_WitnessBuildDate ==
    /\ Accepted
    /\ At(out, 4) = "build-date: unknown"
    /\ result[2].build_date = None

\* C6: once the release value has parsed, the channel is Stable exactly when
\* there is no pre-release identifier; otherwise the first identifier alone
\* decides: dev, beta, nightly give Dev, Beta, Nightly, and any other first
\* identifier, a numeric one included, ends the call with
\* UnknownPreReleaseTag carrying it and no channel.
KnownTags == {AlphaNumeric("dev"), AlphaNumeric("beta"), AlphaNumeric("nightly")}

C6_ChannelLaw ==
    (semver # UnsetVersion /\ pc \in {"llvm", "ok", "done"})
        => /\ (channel = "Stable") <=> (semver.pre = <<>>)
           /\ semver.pre # <<>>
                => /\ (semver.pre[1] = AlphaNumeric("dev") => channel = "Dev")
                   /\ (semver.pre[1] = AlphaNumeric("beta") => channel = "Beta")
                   /\ (semver.pre[1] = AlphaNumeric("nightly") => channel = "Nightly")
                   /\ (semver.pre[1] \notin KnownTags
                         => /\ channel = UnsetChannel
                            /\ pc = "done"
                            /\ result = Err(UnknownPreReleaseTag(semver.pre[1])))
           /\ IsOk(result) => result[2].channel = channel

C6_Witness ==
    /\ Done
    /\ release = "1.0.0-1"
    /\ result = Err(UnknownPreReleaseTag(Numeric(U64Of(1))))

C6_WitnessLaterIgnored ==
    /\ Accepted
    /\ release = "1.5.0-nightly.3"
    /\ result[2].channel = "Nightly"

\* The backend-version grammar as the documentation states it, over decimal
\* strings: a component is `0` or digits without a leading zero, at most
\* 18446744073709551615.
DecLess(a, b) ==
    \E i \in 1..Len(a) :
        /\ DigitVal(CharAt(a, i)) < DigitVal(CharAt(b, i))
        /\ \A j \in 1..(i - 1) : CharAt(a, j) = CharAt(b, j)

FitsU64(s) ==
    \/ Len(s) < 20
    \/ Len(s) = 20 /\ ~DecLess("18446744073709551615", s)

Component(s) ==
    \/ s = "0"
    \/ s # "" /\ AllDigits(s) /\ CharAt(s, 1) # "0" /\ FitsU64(s)

Below4(s) == s \in {"0", "1", "2", "3"}

Major(tok) == IF Find(tok, ".") = 0 THEN tok ELSE SubSeq(tok, 1, Find(tok, ".") - 1)
Minor(tok) == IF Find(tok, ".") = 0 THEN "0" ELSE SubSeq(tok, Find(tok, ".") + 1, Len(tok))

InGrammar(tok) ==
    /\ Component(Major(tok))
    /\ Component(Minor(tok))
    /\ IF Find(tok, ".") = 0
       THEN ~Below4(Major(tok))
       ELSE Below4(Major(tok)) \/ Minor(tok) = "0"

\* The number a decimal string of at most 20 digits denotes, as limbs: the
\* string padded to 20 digits, four digits to a limb.
Num4(d) == DigitVal(CharAt(d, 1)) * 1000 + DigitVal(CharAt(d, 2)) * 100
            + DigitVal(CharAt(d, 3)) * 10 + DigitVal(CharAt(d, 4))
Pad20(s) == SubSeq("00000000000000000000", 1, 20 - Len(s)) \o s
Denotes(s) == [k \in 1..5 |-> Num4(SubSeq(Pad20(s), 4 * k - 3, 4 * k))]

\* The call got as far as a line after the release line that has the prefix
\* `LLVM version: `.
AtLlvmToken ==
    /\ Done
    /\ channel # UnsetChannel
    /\ LineHas(out, idx, "LLVM version: ")

\* C7: the text after `LLVM version: ` is accepted exactly when it is in the
\* grammar (M.N with M < 4, or M or M.0 with M >= 4, each component `0` or
\* digits without a leading zero that fit in 64 bits); the result is then
\* LLVMVersion{M, N}, minor 0 when omitted; any other token is rejected with
\* UnexpectedVersionFormat.
C7_LlvmGrammar ==
    AtLlvmToken
        => IF InGrammar(After(At(out, idx), "LLVM version: "))
           THEN /\ IsOk(result)
                /\ result[2].llvm_version =
                     Some([major |-> Denotes(Major(After(At(out, idx), "LLVM version: "))),
                           minor |-> Denotes(Minor(After(At(out, idx), "LLVM version: ")))])
           ELSE result = Err(UnexpectedVersionFormat)

C7_Witness ==
    /\ AtLlvmToken
    /\ After(At(out, idx), "LLVM version: ") = "18446744073709551615"
    /\ IsOk(result)
    /\ result[2].llvm_version = Some(LLVMVersion(U64Max, U64Zero))

C7_WitnessOverflow ==
    /\ AtLlvmToken
    /\ After(At(out, idx), "LLVM version: ") = "2.18446744073709551616"
    /\ result = Err(UnexpectedVersionFormat)

C7_WitnessBelow4 ==
    /\ AtLlvmToken
    /\ After(At(out, idx), "LLVM version: ") = "3.9"
    /\ result[2].llvm_version = Some(LLVMVersion(U64Of(3), U64Of(9)))

\* C8: the accepted shapes are the documented ones: an accepted 6-line text
\* has neither optional line, an accepted 8-line text has both (`build-date: `
\* at index 4 and `LLVM version: ` at index 7), and no accepted text has a
\* line after the LLVM version line that was parsed.
C8_AcceptedShapes ==
    Accepted
        => /\ NumLines(text) = 6
                => /\ ~StartsWith(At(out, 4), "build-date")
                   /\ result[2].build_date = None
                   /\ result[2].llvm_version = None
           /\ NumLines(text) = 8
                => /\ StartsWith(At(out, 4), "build-date: ")
                   /\ StartsWith(At(out, 7), "LLVM version: ")
           /\ result[2].llvm_version # None => idx = Len(out) - 1

\* C9: an accepted text gives back its line 0 as short_version_string,
\* unchanged and unvalidated, and the text after `host: ` as host.
FirstLineIs(t, l) ==
    /\ Find(l, "\n") = 0
    /\ \/ t = l
       \/ StartsWith(t, l \o "\r\n")
       \/ StartsWith(t, l \o "\n") /\ ~(l # "" /\ CharAt(l, Len(l)) = "\r")

C9_RoundTrip ==
    Accepted
        => /\ FirstLineIs(text, result[2].short_version_string)
           /\ result[2].short_version_string = At(Lines(text), 0)
           /\ "host: " \o result[2].host = At(Lines(text), HostIdx(Lines(text)))

C9_Witness ==
    /\ Accepted
    /\ result[2].short_version_string = "  release: x  "
    /\ result[2].host = "x86_64-linux"
    /\ Find(text, "\r") # 0

C9_WitnessEmptyShort ==
    /\ Accepted
    /\ result[2].short_version_string = ""

C9_WitnessHost ==
    /\ Accepted
    /\ At(out, 5) = "host:  spaced triple "
    /\ result[2].host = " spaced triple "

\* C10: LLVMVersion is ordered by version precedence: a < b exactly when
\* a.major < b.major, or the majors are equal and a.minor < b.minor; the
\* order is total, and a = b exactly when both fields are equal.
Precedes(a, b) ==
    \/ U64Lt(a.major, b.major)
    \/ a.major = b.major /\ U64Lt(a.minor, b.minor)

C10_Ordering ==
    (pc = "compared")
        => /\ (ordering.cmp = "Less") <=> Precedes(lhs, rhs)
           /\ (ordering.cmp = "Greater") <=> Precedes(rhs, lhs)
           /\ (ordering.cmp = "Equal") <=> (lhs.major = rhs.major /\ lhs.minor = rhs.minor)
           /\ ordering.eq <=> (lhs.major = rhs.major /\ lhs.minor = rhs.minor)
           /\ ordering.cmp \in {"Less", "Equal", "Greater"}

C10_Witness ==
    /\ pc = "compared"
    /\ lhs = LLVMVersion(U64Of(3), U64Max)
    /\ rhs = LLVMVersion(U64Of(4), U64Zero)
    /\ ordering.cmp = "Less"

\* One of the prefixes the call requires is missing from its line.
PrefixMissing(lines) ==
    \/ ~StartsWith(At(lines, 2), "commit-hash: ")
    \/ ~StartsWith(At(lines, 3), "commit-date: ")
    \/ StartsWith(At(lines, 4), "build-date") /\ ~StartsWith(At(lines, 4), "build-date: ")
    \/ ~LineHas(lines, HostIdx(lines), "host: ")
    \/ ~LineHas(lines, HostIdx(lines) + 1, "release: ")

ErrorKind(r) == r[2][1]

\* C11: an error returned by version_meta_for is UnexpectedVersionFormat,
\* SemVerError or UnknownPreReleaseTag, never LlvmVersionError, ReqParseError,
\* CouldNotExecuteCommand or Utf8Error; a wrong line count, a missing prefix
\* and a failure on the LLVM version line are each UnexpectedVersionFormat.
C11_ErrorKinds ==
    (Done /\ IsErr(result))
        => /\ ErrorKind(result) \in
                {"UnexpectedVersionFormat", "SemVerError", "UnknownPreReleaseTag"}
           /\ ErrorKind(result) \notin
                {"LlvmVersionError", "ReqParseError", "CouldNotExecuteCommand", "Utf8Error"}
           /\ (NumLines(text) < 6 \/ NumLines(text) > 8)
                => result = Err(UnexpectedVersionFormat)
           /\ (NumLines(text) >= 6 /\ NumLines(text) <= 8 /\ PrefixMissing(out))
                => result = Err(UnexpectedVersionFormat)
           /\ channel # UnsetChannel
                => result = Err(UnexpectedVersionFormat)

C11_Witness ==
    /\ AtLlvmToken
    /\ After(At(out, idx), "LLVM version: ") = "07.0"
    /\ result = Err(UnexpectedVersionFormat)

C11_WitnessSemver ==
    /\ Done
    /\ result = Err(SemVerError)
    /\ ~PrefixMissing(out)

\* The checks in the order of C12, read off the lines of a text of 6..8
\* lines: which of them is the first to fail, the error it gives and the
\* index of the line it reads.
ReleaseValue(lines) == After(At(lines, HostIdx(lines) + 1), "release: ")
FirstTag(lines) == SemverParse(ReleaseValue(lines))[2].pre[1]

BuildDateBad(lines) ==
    StartsWith(At(lines, 4), "build-date") /\ ~StartsWith(At(lines, 4), "build-date: ")
SemverBad(lines) == IsErr(SemverParse(ReleaseValue(lines)))
TagBad(lines) ==
    /\ SemverParse(ReleaseValue(lines))[2].pre # <<>>
    /\ FirstTag(lines) \notin KnownTags
LlvmBad(lines) ==
    /\ HostIdx(lines) + 2 < Len(lines)
    /\ \/ ~StartsWith(At(lines, HostIdx(lines) + 2), "LLVM version: ")
       \/ ~InGrammar(After(At(lines, HostIdx(lines) + 2), "LLVM version: "))

NoFailure == <<"NoFailure">>
NoReleaseLine == <<"NoReleaseLine">>

\* The checks that follow the release prefix, given the parse of its value:
\* <<the error of the first failing check, the index of its line>>.
FirstFailureFrom(lines, parsed) ==
    IF IsErr(parsed) THEN <<Err(SemVerError), HostIdx(lines) + 1>>
    ELSE IF parsed[2].pre # <<>> /\ parsed[2].pre[1] \notin KnownTags
         THEN <<Err(UnknownPreReleaseTag(parsed[2].pre[1])), HostIdx(lines) + 1>>
    ELSE IF LlvmBad(lines) THEN <<Err(UnexpectedVersionFormat), HostIdx(lines) + 2>>
    ELSE <<NoFailure, Len(lines) - 1>>

FirstFailure(lines) ==
    IF ~StartsWith(At(lines, 2), "commit-hash: ") THEN <<Err(UnexpectedVersionFormat), 2>>
    ELSE IF ~StartsWith(At(lines, 3), "commit-date: ") THEN <<Err(UnexpectedVersionFormat), 3>>
    ELSE IF BuildDateBad(lines) THEN <<Err(UnexpectedVersionFormat), 4>>
    ELSE IF ~StartsWith(At(lines, HostIdx(lines)), "host: ")
         THEN <<Err(UnexpectedVersionFormat), HostIdx(lines)>>
    ELSE IF HostIdx(lines) + 1 >= Len(lines) THEN <<NoReleaseLine, HostIdx(lines)>>
    ELSE IF ~StartsWith(At(lines, HostIdx(lines) + 1), "release: ")
         THEN <<Err(UnexpectedVersionFormat), HostIdx(lines) + 1>>
    ELSE FirstFailureFrom(lines, SemverParse(ReleaseValue(lines)))

\* The result agrees with the first failing check.
AgreesWith(first) ==
    /\ IsErr(result)
         => /\ result = first[1]
            /\ \A i \in inspected : i <= first[2]
    /\ IsOk(result) => first[1] = NoFailure

\* C12: the checks run in the order line count, commit-hash, commit-date,
\* build-date, host, release, semver, channel, LLVM version; the error
\* returned is that of the first check that fails, no line of a later check
\* has been read when it is returned, and a text is accepted only when no
\* check fails.
C12_CheckOrder ==
    (Done /\ NumLines(text) >= 6 /\ NumLines(text) <= 8)
        => AgreesWith(FirstFailure(out))

C12_Witness ==
    /\ Done
    /\ result = Err(SemVerError)
    /\ LlvmBad(out)
    /\ HostIdx(out) + 2 \notin inspected

C12_WitnessTag ==
    /\ Done
    /\ IsErr(result)
    /\ ErrorKind(result) = "UnknownPreReleaseTag"
    /\ LlvmBad(out)

C12_WitnessPrefix ==
    /\ Done
    /\ NumLines(text) >= 6 /\ NumLines(text) <= 8
    /\ result = Err(UnexpectedVersionFormat)
    /\ ~StartsWith(At(out, 2), "commit-hash: ")
    /\ LineHas(out, HostIdx(out) + 1, "release: ")
    /\ SemverBad(out)
    /\ inspected = {0, 2}

====
